---- MODULE Spec2Model ----
(***************************************************************************)
(* Model of the MVV transit reachability backend:                          *)
(*   - TransitGraphBuilder.build_graph_for_day_type                        *)
(*       (src/backend/graph/graph_builder.py)                              *)
(*   - ReachabilityCalculator.calculate_reachability                       *)
(*       (src/backend/graph/reachability.py)                               *)
(* A GTFS feed (trips with stop visits, transfer rules) is loaded, one     *)
(* graph is built from it, and the calculator answers two successive       *)
(* queries on that graph (same origin and departure time, budgets          *)
(* b1 <= b2).  Times are seconds; travel_time_minutes is kept in tenths    *)
(* of a minute, as the code rounds it to one decimal place.                *)
(***************************************************************************)
EXTENDS Integers, Sequences, FiniteSets, TLC

VARIABLES
    trips_df,          \* set of indices into TripCatalogue: the trips of the feed
    transfers_df,      \* sequence of transfer rules (rows of transfers.txt)
    G,                 \* the built graph: [nodes, edges], or NoGraph before the build
    pc,                \* "loaded" | "ready" | "search" | "done" | "error"
    run,               \* number of the current query on the calculator (0 = none yet)
    origin_stop_id,    \* arguments of the current call of calculate_reachability
    departure_time,
    max_time_minutes,
    day_type,
    earliest_arrival,  \* dict stop -> (arrival, transfers), as a sequence in insertion order
    pq,                \* the heap, as the set of its tuples <<arrival, stop, transfers>>
    explored,          \* set of settled stops
    results,           \* the returned list (when pc = "done")
    error,             \* the exception raised (when pc = "error"), or "none"
    prev,              \* outcome of the previous query: [budget, status, results]
    time_step_minutes, \* step of the timeline made from the result, 0 when none was made
    timeline,          \* the frames of calculate_reachability_timeline
    calendar_df,       \* rows of calendar.txt
    service_ids_by_day,\* the dict get_service_ids_by_day_type returns
    gtfs_dir,          \* the extracted feed on disk: [version, valid]
    metadata,          \* the checksum recorded in metadata.json, as a feed version
    graph_files,       \* graph_<day_type>.pkl on disk: day type -> [state, build]
    calculator,        \* the global calculator of the API: [loaded, graphs]
    req_pc,            \* position of the reachability handler
    request,           \* the request being handled
    response,          \* the last response of the reachability handler
    in_service,        \* the calculator in service before the last failed update attempt
    failed_step        \* the step at which the last update attempt failed

vars == <<trips_df, transfers_df, G, pc, run, origin_stop_id, departure_time,
          max_time_minutes, day_type, earliest_arrival, pq, explored, results, error,
          prev, time_step_minutes, timeline, calendar_df, service_ids_by_day,
          gtfs_dir,
          metadata, graph_files, calculator, req_pc, request, response, in_service,
          failed_step>>

\* the variables of the graph builder and the search
searchVars == <<trips_df, transfers_df, G, pc, run, origin_stop_id, departure_time,
                max_time_minutes, day_type, earliest_arrival, pq, explored, results,
                error, prev, time_step_minutes, timeline>>

\* the variables of the calendar classification
calendarVars == <<calendar_df, service_ids_by_day>>

\* the variables of the API process and its files
serverVars == <<gtfs_dir, metadata, graph_files, calculator, req_pc, request,
                response, in_service, failed_step>>

-----------------------------------------------------------------------------
(* Bounds of the model *)

\* at most this many trips in stop_times.txt / trips.txt
MaxTrips == 2

\* at most this many rows in transfers.txt
MaxTransfers == 2

\* at most this many successive queries on the calculator
MaxQueries == 2

\* at most this many rows in calendar.txt
MaxRules == 1

\* the feed versions the upstream source may offer are 1 .. MaxVersions
MaxVersions == 2

(* Program constants *)

\* 24 * 3600, the midnight correction
DaySeconds == 86400

\* a wait longer than this counts as a transfer
TransferWait == 120

\* settings.DEFAULT_TRANSFER_TIME
DEFAULT_TRANSFER_TIME == 180

-----------------------------------------------------------------------------
(* The inputs the model draws from *)

\* stops.txt: the known stops, in file order
STOPS == <<"A", "B", "C">>

\* "X" is a stop id that occurs in stop_times.txt / transfers.txt only
StopIds == {"A", "B", "C", "X"}

\* Python's string order on the stop ids (used by the heap's tuple comparison)
StopOrd(s) == CASE s = "A" -> 1 [] s = "B" -> 2 [] s = "C" -> 3 [] OTHER -> 4

\* a missing value in a CSV cell
NaN == <<>>

V(stop, seq, arr, dep) ==
    [stop_id |-> stop, stop_sequence |-> seq, arrival_time |-> arr, departure_time |-> dep]

\* The trips a feed may hold, in ascending trip_id order.  Clock strings
\* HH:MM:SS are <<h, m, s>>.
TripCatalogue == <<
    \* T1  A -> C, arrives 2 s after T2 reaches B (same rounded travel time)
    [service_id |-> "S1",
     visits |-> {V("A", 1, <<9,0,0>>, <<9,0,0>>), V("C", 2, <<9,10,2>>, <<9,10,2>>)}],
    \* T2  A -> B -> C, rows listed out of stop_sequence order
    [service_id |-> "S1",
     visits |-> {V("C", 3, <<9,20,0>>, <<9,20,0>>), V("A", 1, <<9,0,0>>, <<9,0,0>>),
                 V("B", 2, <<9,10,0>>, <<9,11,0>>)}],
    \* T3  B -> C, a later trip on the same stop pair as T2's second segment
    [service_id |-> "S1",
     visits |-> {V("B", 1, <<9,20,0>>, <<9,20,0>>), V("C", 2, <<9,30,0>>, <<9,30,0>>)}],
    \* T4  A -> B, zero duration, leaving at 09:00:00
    [service_id |-> "S1",
     visits |-> {V("A", 1, <<9,0,0>>, <<9,0,0>>), V("B", 2, <<9,0,0>>, <<9,0,0>>)}],
    \* T5  A -> C, slow (C is reached earlier through B with T2)
    [service_id |-> "S1",
     visits |-> {V("A", 1, <<9,0,0>>, <<9,0,0>>), V("C", 2, <<9,30,0>>, <<9,30,0>>)}],
    \* T6  B -> C over midnight: 23:50:00 -> 00:10:00
    [service_id |-> "S1",
     visits |-> {V("B", 1, <<23,50,0>>, <<23,50,0>>), V("C", 2, <<0,10,0>>, <<0,10,0>>)}],
    \* T7  C -> A, departure written past 24:00:00, arrival written as clock time
    [service_id |-> "S1",
     visits |-> {V("C", 1, <<25,0,0>>, <<25,0,0>>), V("A", 2, <<0,10,0>>, <<0,10,0>>)}],
    \* T8  A -> X, X is not in stops.txt
    [service_id |-> "S1",
     visits |-> {V("A", 1, <<9,0,0>>, <<9,0,0>>), V("X", 2, <<9,5,0>>, <<9,5,0>>)}],
    \* T9  A -> B of a service that does not run on this day type
    [service_id |-> "S2",
     visits |-> {V("A", 1, <<9,0,0>>, <<9,0,0>>), V("B", 2, <<9,1,0>>, <<9,1,0>>)}],
    \* T10 B -> B -> C, leaving B 120 s after T2 reaches it; its first segment
    \* is a zero-duration self-loop
    [service_id |-> "S1",
     visits |-> {V("B", 1, <<9,12,0>>, <<9,12,0>>), V("B", 2, <<9,12,0>>, <<9,12,0>>),
                 V("C", 3, <<9,18,0>>, <<9,18,0>>)}],
    \* T11 C -> A shortly after midnight, written as clock time: more than 24 h
    \* before the time T6 reaches C
    [service_id |-> "S1",
     visits |-> {V("C", 1, <<0,5,0>>, <<0,5,0>>), V("A", 2, <<0,8,0>>, <<0,8,0>>)}]
>>

\* The rows transfers.txt may hold, in file order; min_transfer_time is <<n>>,
\* or NaN for an empty cell
TransferCatalogue == <<
    [from_stop_id |-> "A", to_stop_id |-> "B", min_transfer_time |-> <<300>>],
    [from_stop_id |-> "C", to_stop_id |-> "A", min_transfer_time |-> NaN],
    [from_stop_id |-> "C", to_stop_id |-> "X", min_transfer_time |-> <<120>>]
>>

\* service_ids of the day type the graph is built for
ServiceIds == {"S1"}

\* arguments of the queries: departure_time "HH:MM" is <<h, m>>
Departures == {<<9, 0>>, <<23, 50>>}
Budgets == {-5, 0, 10, 30}

\* day_type arguments: "holiday" is no key of the calculator's graphs
DayTypes == {"weekday", "holiday"}

\* the day type the graph of the model is built for
BuiltDayType == "weekday"

\* time_step_minutes arguments of the timeline
TimeSteps == {10, 20}

-----------------------------------------------------------------------------
(* Sequence helpers *)

RECURSIVE SubSeqOf(_, _)
\* the subsequence of s at the index set idx, in ascending index order
SubSeqOf(s, idx) ==
    IF idx = {} THEN <<>>
    ELSE LET i == CHOOSE j \in idx : \A k \in idx : j <= k
         IN  <<s[i]>> \o SubSeqOf(s, idx \ {i})

Range(s) == {s[i] : i \in DOMAIN s}

-----------------------------------------------------------------------------
(* TransitGraphBuilder *)

\* TransitGraphBuilder.time_to_seconds: "HH:MM:SS" (may exceed 24 h) to seconds
BuilderTimeToSeconds(time_str) ==
    IF time_str = NaN THEN 0
    ELSE time_str[1] * 3600 + time_str[2] * 60 + time_str[3]

NoGraph == [nodes |-> <<>>, edges |-> <<>>]

HasNode(g, n) == \E i \in DOMAIN g.nodes : g.nodes[i].id = n

HasEdge(g, u, v) == \E i \in DOMAIN g.edges : g.edges[i].from = u /\ g.edges[i].to = v

\* nx.DiGraph.add_node(id, stop_name=..., lat=..., lon=...)
add_node(g, n) ==
    IF HasNode(g, n)
    THEN [g EXCEPT !.nodes = [i \in DOMAIN g.nodes |->
            IF g.nodes[i].id = n THEN [id |-> n, has_data |-> TRUE] ELSE g.nodes[i]]]
    ELSE [g EXCEPT !.nodes = Append(g.nodes, [id |-> n, has_data |-> TRUE])]

\* the node that add_edge creates for an endpoint the graph does not hold yet:
\* it carries no attributes
ImplicitNode(g, n) ==
    IF HasNode(g, n) THEN g
    ELSE [g EXCEPT !.nodes = Append(g.nodes, [id |-> n, has_data |-> FALSE])]

\* the attribute dict of a new edge u -> v
NewEdgeData(u, v) ==
    [from |-> u, to |-> v, has_times |-> FALSE, departure_time |-> 0,
     arrival_time |-> 0, duration |-> 0, trip_id |-> 0, transfer |-> FALSE]

\* the attribute dict of edge u -> v after add_edge(u, v, **attr): a DiGraph
\* keeps one dict per ordered pair and updates it with the new keys
UpdateEdgeData(old, attr) ==
    IF attr.kind = "trip"
    THEN [old EXCEPT !.has_times = TRUE,
                     !.departure_time = attr.departure_time,
                     !.arrival_time = attr.arrival_time,
                     !.duration = attr.duration,
                     !.trip_id = attr.trip_id]
    ELSE [old EXCEPT !.transfer = TRUE, !.duration = attr.duration]

\* nx.DiGraph.add_edge(u, v, **attr)
add_edge(g, u, v, attr) ==
    LET g1 == ImplicitNode(ImplicitNode(g, u), v)
    IN  IF HasEdge(g1, u, v)
        THEN [g1 EXCEPT !.edges = [i \in DOMAIN g1.edges |->
                IF g1.edges[i].from = u /\ g1.edges[i].to = v
                THEN UpdateEdgeData(g1.edges[i], attr) ELSE g1.edges[i]]]
        ELSE [g1 EXCEPT !.edges = Append(g1.edges, UpdateEdgeData(NewEdgeData(u, v), attr))]

RECURSIVE SortByStopSequence(_)
\* trip_stops.sort_values('stop_sequence')
SortByStopSequence(visits) ==
    IF visits = {} THEN <<>>
    ELSE LET first == CHOOSE x \in visits :
                        \A y \in visits : x.stop_sequence <= y.stop_sequence
         IN  <<first>> \o SortByStopSequence(visits \ {first})

\* the attributes of the edge for one consecutive pair of visits of a trip
\* (lines 211-235)
TripEdgeAttr(from_stop, to_stop, trip_id) ==
    LET departure == BuilderTimeToSeconds(from_stop.departure_time)
        raw_arrival == BuilderTimeToSeconds(to_stop.arrival_time)
        arrival == IF raw_arrival < departure THEN raw_arrival + DaySeconds
                   ELSE raw_arrival
    IN  [kind |-> "trip", departure_time |-> departure, arrival_time |-> arrival,
         duration |-> arrival - departure, trip_id |-> trip_id]

RECURSIVE AddTripEdges(_, _, _, _)
\* the inner loop over range(len(trip_stops) - 1), from index i
AddTripEdges(g, trip_stops, trip_id, i) ==
    IF i >= Len(trip_stops) THEN g
    ELSE AddTripEdges(
            add_edge(g, trip_stops[i].stop_id, trip_stops[i + 1].stop_id,
                     TripEdgeAttr(trip_stops[i], trip_stops[i + 1], trip_id)),
            trip_stops, trip_id, i + 1)

\* trips_df[trips_df['service_id'].isin(service_ids)], as trip ids
TripsOnDay(trips, service_ids) ==
    {t \in trips : TripCatalogue[t].service_id \in service_ids}

RECURSIVE AddTrips(_, _)
\* the loop over stop_times_on_day.groupby('trip_id'): ascending trip_id
AddTrips(g, trip_ids) ==
    IF trip_ids = {} THEN g
    ELSE LET t == CHOOSE x \in trip_ids : \A y \in trip_ids : x <= y
         IN  AddTrips(AddTripEdges(g, SortByStopSequence(TripCatalogue[t].visits), t, 1),
                      trip_ids \ {t})

\* the duration of a transfer rule (lines 249-252)
TransferTime(transfer) ==
    IF transfer.min_transfer_time # NaN THEN transfer.min_transfer_time[1]
    ELSE DEFAULT_TRANSFER_TIME

\* the guard of line 255
TransferAccepted(g, transfer) ==
    HasNode(g, transfer.from_stop_id) /\ HasNode(g, transfer.to_stop_id)

RECURSIVE AddTransfers(_, _, _)
\* the loop over transfers_df.iterrows(), from row i
AddTransfers(g, transfers, i) ==
    IF i > Len(transfers) THEN g
    ELSE AddTransfers(
            IF TransferAccepted(g, transfers[i])
            THEN add_edge(g, transfers[i].from_stop_id, transfers[i].to_stop_id,
                          [kind |-> "transfer", duration |-> TransferTime(transfers[i])])
            ELSE g,
            transfers, i + 1)

RECURSIVE AddStops(_, _)
\* the loop over stops_df.iterrows(), from row i
AddStops(g, i) ==
    IF i > Len(STOPS) THEN g ELSE AddStops(add_node(g, STOPS[i]), i + 1)

\* TransitGraphBuilder.build_graph_for_day_type
build_graph_for_day_type(trips, transfers, service_ids) ==
    AddTransfers(AddTrips(AddStops(NoGraph, 1), TripsOnDay(trips, service_ids)),
                 transfers, 1)

-----------------------------------------------------------------------------
(* ReachabilityCalculator *)

\* ReachabilityCalculator.time_to_seconds: "HH:MM" to seconds
time_to_seconds(time_str) == time_str[1] * 3600 + time_str[2] * 60

\* earliest_arrival as a Python dict: the position of a key, 0 when absent
KeyIndex(ea, stop) ==
    IF \E i \in DOMAIN ea : ea[i].stop = stop
    THEN CHOOSE i \in DOMAIN ea : ea[i].stop = stop
    ELSE 0

\* earliest_arrival[stop] = (arrival, transfers): a new key goes last, an
\* existing key keeps its place
DictSet(ea, stop, arrival, transfers) ==
    LET item == [stop |-> stop, arrival |-> arrival, transfers |-> transfers]
    IN  IF KeyIndex(ea, stop) = 0 THEN Append(ea, item)
        ELSE [ea EXCEPT ![KeyIndex(ea, stop)] = item]

\* Python's order on the heap tuples (arrival_time, stop_id, num_transfers)
TupleLess(e, f) ==
    \/ e[1] < f[1]
    \/ e[1] = f[1] /\ StopOrd(e[2]) < StopOrd(f[2])
    \/ e[1] = f[1] /\ e[2] = f[2] /\ e[3] < f[3]

\* the tuple heapq.heappop returns
HeapMin(q) == CHOOSE e \in q : \A f \in q \ {e} : TupleLess(e, f)

\* G.neighbors(current_stop) with G.get_edge_data(current_stop, neighbor):
\* the edge dicts leaving the stop, in adjacency (insertion) order
OutEdges(g, stop) == SelectSeq(g.edges, LAMBDA e : e.from = stop)

\* lines 109-114: the list `edges` made from one edge dict.  A dict with a
\* 'departure_time' key is wrapped in a list; of any other dict the list holds
\* the attribute values (True and the duration), which are not dicts
EdgeList(edge_data) ==
    IF edge_data.has_times
    THEN <<[is_dict |-> TRUE, data |-> edge_data]>>
    ELSE <<[is_dict |-> FALSE, data |-> edge_data], [is_dict |-> FALSE, data |-> edge_data]>>

\* edge.get('transfer', False) raises AttributeError on a value that is no dict
EdgeGetRaises(edge_data) == \E i \in DOMAIN EdgeList(edge_data) : ~EdgeList(edge_data)[i].is_dict

\* faulty variant: the budget is never tested
WithinBudgetUnchecked(arrival_time, departure_time_sec, max_time_sec) == TRUE

\* the budget test of lines 126 and 144
WithinBudget(arrival_time, departure_time_sec, max_time_sec) ==
    arrival_time - departure_time_sec <= max_time_sec

\* lines 136-139: departure and arrival of a transit edge as the search reads them
ShiftedTimes(edge, current_time) ==
    IF edge.departure_time < current_time - DaySeconds
    THEN [dep_time |-> edge.departure_time + DaySeconds,
          arr_time |-> edge.arrival_time + DaySeconds]
    ELSE [dep_time |-> edge.departure_time, arr_time |-> edge.arrival_time]

\* faulty variant: the shifted times are written back into the edge dict
StoredEdgeShifted(edge, current_time) ==
    IF edge.has_times /\ ~edge.transfer
    THEN [edge EXCEPT !.departure_time = ShiftedTimes(edge, current_time).dep_time,
                      !.arrival_time = ShiftedTimes(edge, current_time).arr_time]
    ELSE edge

\* lines 133-139: dep_time and arr_time are locals; the edge dict the graph
\* holds is only read
StoredEdge(edge, current_time) == edge

\* the graph after the edges leaving `stop` were evaluated at current_time
GraphAfterExpand(g, stop, current_time) ==
    [g EXCEPT !.edges = [i \in DOMAIN g.edges |->
        IF g.edges[i].from = stop THEN StoredEdge(g.edges[i], current_time)
        ELSE g.edges[i]]]

\* faulty variant: the departure is not compared with the arrival at the stop
DepartsAlways(dep_time, current_time) == TRUE

\* line 142: the connection departs after we arrive
Departs(dep_time, current_time) == dep_time >= current_time

\* faulty variant: a wait of exactly the threshold counts as a transfer
IsTransferAtLeast(dep_time, current_time) == (dep_time - current_time) >= TransferWait

\* line 147
IsTransfer(dep_time, current_time) == (dep_time - current_time) > TransferWait

\* lines 120-152 for one edge: what it offers for the neighbour, if anything
Candidate(edge, current_time, num_transfers, departure_time_sec, max_time_sec) ==
    IF edge.transfer
    THEN LET arrival_time == current_time + edge.duration
         IN  [ok |-> WithinBudget(arrival_time, departure_time_sec, max_time_sec),
              arrival |-> arrival_time, transfers |-> num_transfers + 1]
    ELSE LET t == ShiftedTimes(edge, current_time)
         IN  [ok |-> Departs(t.dep_time, current_time)
                     /\ WithinBudget(t.arr_time, departure_time_sec, max_time_sec),
              arrival |-> t.arr_time,
              transfers |-> num_transfers
                            + (IF IsTransfer(t.dep_time, current_time) THEN 1 ELSE 0)]

NoBest == [ok |-> FALSE, arrival |-> 0, transfers |-> 0]

\* lines 127 and 150: the candidate replaces the best so far
Better(cand, best) == ~best.ok \/ cand.arrival < best.arrival

RECURSIVE BestOf(_, _, _, _, _, _, _)
\* the loop `for edge in edges` from index i: best_arrival, best_transfers
BestOf(edges, i, best, current_time, num_transfers, departure_time_sec, max_time_sec) ==
    IF i > Len(edges) THEN best
    ELSE LET cand == Candidate(edges[i].data, current_time, num_transfers,
                               departure_time_sec, max_time_sec)
         IN  BestOf(edges, i + 1,
                    IF cand.ok /\ Better(cand, best) THEN cand ELSE best,
                    current_time, num_transfers, departure_time_sec, max_time_sec)

\* faulty variant: every admissible route replaces the one known
ImprovesAlways(ea, neighbor, best_arrival) == TRUE

\* line 157: the route found is better than the one known
Improves(ea, neighbor, best_arrival) ==
    KeyIndex(ea, neighbor) = 0 \/ best_arrival < ea[KeyIndex(ea, neighbor)].arrival

RECURSIVE Relax(_, _, _, _, _, _, _)
\* the loop `for neighbor in G.neighbors(current_stop)` from index i, on the
\* search state st = [ea, pq]
Relax(st, out, i, current_time, num_transfers, departure_time_sec, max_time_sec) ==
    IF i > Len(out) THEN st
    ELSE LET best == BestOf(EdgeList(out[i]), 1, NoBest, current_time, num_transfers,
                            departure_time_sec, max_time_sec)
             next == IF best.ok /\ Improves(st.ea, out[i].to, best.arrival)
                     THEN [ea |-> DictSet(st.ea, out[i].to, best.arrival, best.transfers),
                           pq |-> st.pq \cup {<<best.arrival, out[i].to, best.transfers>>}]
                     ELSE st
         IN  Relax(next, out, i + 1, current_time, num_transfers,
                   departure_time_sec, max_time_sec)

\* round(travel_time_sec / 60.0, 1), in tenths of a minute (the times of the
\* model are never an odd multiple of 3 seconds, where the float's rounding
\* decides)
TravelTimeMinutes(travel_time_sec) == (travel_time_sec * 10 + 30) \div 60

\* line 164: the origin is left out of the result
SkipStop(stop_id, origin) == stop_id = origin

RECURSIVE BuildResults(_, _, _, _)
\* lines 162-180: the result records in the order of earliest_arrival.items()
BuildResults(ea, i, origin, departure_time_sec) ==
    IF i > Len(ea) THEN <<>>
    ELSE (IF SkipStop(ea[i].stop, origin) THEN <<>>
          ELSE <<[stop_id |-> ea[i].stop,
                  travel_time_minutes |-> TravelTimeMinutes(ea[i].arrival - departure_time_sec),
                  num_transfers |-> ea[i].transfers]>>)
         \o BuildResults(ea, i + 1, origin, departure_time_sec)

\* G.nodes[stop_id]['stop_name'] raises KeyError for a node without attributes
StopDataRaises(g, ea, origin) ==
    \E i \in DOMAIN ea :
        /\ ~SkipStop(ea[i].stop, origin)
        /\ \E n \in DOMAIN g.nodes : g.nodes[n].id = ea[i].stop /\ ~g.nodes[n].has_data

\* faulty variant: a sort key comparison that also puts x before an equal y
KeyLessOrEqual(x, y) == x.travel_time_minutes <= y.travel_time_minutes

\* the sort key of line 183 orders x before y
KeyLess(x, y) == x.travel_time_minutes < y.travel_time_minutes

RECURSIVE InsertSorted(_, _)
\* x put into the sorted list after every element that does not come after it
InsertSorted(sorted, x) ==
    IF sorted = <<>> THEN <<x>>
    ELSE IF KeyLess(x, Head(sorted)) THEN <<x>> \o sorted
         ELSE <<Head(sorted)>> \o InsertSorted(Tail(sorted), x)

RECURSIVE SortResults(_, _, _)
\* results.sort(key=travel_time_minutes): Python's sort is stable
SortResults(list, i, sorted) ==
    IF i > Len(list) THEN sorted
    ELSE SortResults(list, i + 1, InsertSorted(sorted, list[i]))

\* faulty variant: a range that stops before its stop value minus one
RangeLenShort(start, stop, step) ==
    IF stop - 1 > start THEN (stop - 1 - start + step - 1) \div step ELSE 0

\* len(range(start, stop, step)) for a positive step
RangeLen(start, stop, step) ==
    IF stop > start THEN (stop - start + step - 1) \div step ELSE 0

\* range(start, stop, step) as a sequence
PyRange(start, stop, step) ==
    [i \in 1 .. RangeLen(start, stop, step) |-> start + (i - 1) * step]

\* line 225: stop['travel_time_minutes'] <= step, on the rounded value (kept
\* in tenths of a minute)
AtStep(stop, step) == stop.travel_time_minutes <= step * 10

\* lines 222-232: the frames made from the result of the one search
TimelineFrames(all_reachable, step_minutes, budget) ==
    LET steps == PyRange(step_minutes, budget + 1, step_minutes)
    IN  [k \in DOMAIN steps |->
            [elapsed_minutes |-> steps[k],
             reachable_stops |-> SelectSeq(all_reachable, LAMBDA stop : AtStep(stop, steps[k]))]]

-----------------------------------------------------------------------------
(* get_service_ids_by_day_type (graph_builder.py) *)

\* the service ids of the calendar rows, in file order
CalendarServices == <<"S1", "S2", "S3">>

\* the day flags of a calendar row
Flags ==
    [monday : {0, 1}, tuesday : {0, 1}, wednesday : {0, 1}, thursday : {0, 1},
     friday : {0, 1}, saturday : {0, 1}, sunday : {0, 1}]

\* the calendars of at most MaxRules rows
Calendars ==
    UNION {{[i \in 1 .. n |-> [service_id |-> CalendarServices[i], flags |-> f[i]]] :
                f \in [1 .. n -> Flags]} : n \in 0 .. MaxRules}

EmptyServiceIds == [weekday |-> <<>>, saturday |-> <<>>, sunday |-> <<>>]

\* lines 107-110: monday-friday all 1, saturday and sunday 0
WeekdayOnly(row) ==
    /\ row.monday = 1 /\ row.tuesday = 1 /\ row.wednesday = 1 /\ row.thursday = 1
    /\ row.friday = 1 /\ row.saturday = 0 /\ row.sunday = 0

\* faulty variant: the other flags are not looked at
SaturdayOnlyLoose(row) == row.saturday = 1

\* lines 114-117: only saturday is 1
SaturdayOnly(row) ==
    /\ row.saturday = 1 /\ row.sunday = 0
    /\ row.monday = 0 /\ row.tuesday = 0 /\ row.wednesday = 0 /\ row.thursday = 0
    /\ row.friday = 0

\* lines 121-124: only sunday is 1
SundayOnly(row) ==
    /\ row.sunday = 1 /\ row.saturday = 0
    /\ row.monday = 0 /\ row.tuesday = 0 /\ row.wednesday = 0 /\ row.thursday = 0
    /\ row.friday = 0

\* line 130: some flag of monday-friday is 1
AnyWeekday(row) ==
    \/ row.monday = 1 \/ row.tuesday = 1 \/ row.wednesday = 1 \/ row.thursday = 1
    \/ row.friday = 1

AppendIf(list, cond, x) == IF cond THEN Append(list, x) ELSE list

\* lines 104-135: the body of the loop for one row
ClassifyRow(ids, service_id, row) ==
    IF WeekdayOnly(row) THEN [ids EXCEPT !.weekday = Append(@, service_id)]
    ELSE IF SaturdayOnly(row) THEN [ids EXCEPT !.saturday = Append(@, service_id)]
    ELSE IF SundayOnly(row) THEN [ids EXCEPT !.sunday = Append(@, service_id)]
    ELSE [weekday |-> AppendIf(ids.weekday, AnyWeekday(row), service_id),
          saturday |-> AppendIf(ids.saturday, row.saturday = 1, service_id),
          sunday |-> AppendIf(ids.sunday, row.sunday = 1, service_id)]

RECURSIVE get_service_ids_by_day_type(_, _, _)
\* the loop `for _, row in self.calendar_df.iterrows()` from row i
get_service_ids_by_day_type(calendar, i, ids) ==
    IF i > Len(calendar) THEN ids
    ELSE get_service_ids_by_day_type(calendar, i + 1,
             ClassifyRow(ids, calendar[i].service_id, calendar[i].flags))

-----------------------------------------------------------------------------
(* The API process (app.py): calculator, request handlers, update handler *)

\* the day types in the order build_all_graphs and load_graphs go through them
DayTypeOrder == <<"weekday", "saturday", "sunday">>

AllDayTypes == Range(DayTypeOrder)

\* stops.txt of a feed version: B is a stop of the odd versions only, C of
\* the even ones
FeedStops(version) == IF version % 2 = 1 THEN {"A", "B"} ELSE {"A", "C"}

\* origin_stop_id of the requests: Z is a stop of no feed
Origins == {"A", "B", "Z"}

RequestKinds == {"reachability", "timeline"}

\* a Python dict from day types to builds, as a function on its keys
EmptyDict == [d \in {} |-> 0]

\* calculator = None
NoCalculator == [loaded |-> FALSE, graphs |-> EmptyDict]

\* a graph file on disk
AbsentFile == [state |-> "absent", build |-> 0]
TruncatedFile == [state |-> "truncated", build |-> 0]
GraphFile(build) == [state |-> "ok", build |-> build]

NoRequest == [origin |-> "A", day |-> "weekday", kind |-> "reachability", lookup |-> EmptyDict]

\* what is kept of a response: its status, whether get_stop_info found the
\* origin, the graphs the lookup and the search were made on, and whether the
\* search was called
NoResponse ==
    [status |-> 0, found |-> FALSE, lookup |-> EmptyDict, search |-> EmptyDict,
     searched |-> FALSE]

\* faulty variant: the update handler runs beside a request that has begun
EventLoopShared(other_pc) == TRUE

\* the handlers are coroutines without an await: one that has begun runs to
\* its end before the event loop starts another
EventLoopFree(other_pc) == other_pc = "idle"

\* reachability.py 246-248: get_stop_info returns None
StopInfoIsNone(graphs, origin, day) ==
    IF day \in DOMAIN graphs THEN origin \notin FeedStops(graphs[day]) ELSE TRUE

\* reachability.py 67-73, called from the handler
SearchRaisesValueError(graphs, origin, day) ==
    IF day \in DOMAIN graphs THEN origin \notin FeedStops(graphs[day]) ELSE TRUE

\* app.py 177-181: the status the except clauses of the handler give an
\* exception raised inside its try block
ExceptStatus(exception) == IF exception = "ValueError" THEN 400 ELSE 500

\* graph_builder.py 330-338: what load_graphs meets at a file
LoadOutcome(file) ==
    IF file.state = "absent" THEN "FileNotFoundError"
    ELSE IF file.state = "truncated" THEN "UnpicklingError"
    ELSE "ok"

\* app.py 48-59 at startup: the calculator made from the files, or None
StartupCalculator(files) ==
    IF \A d \in AllDayTypes : LoadOutcome(files[d]) = "ok"
    THEN [loaded |-> TRUE, graphs |-> [d \in AllDayTypes |-> files[d].build]]
    ELSE NoCalculator

NoPrev == [budget |-> 0, status |-> "none", results |-> <<>>, error |-> "none"]

\* the search machine at rest, while another part of the program is looked at
SearchIdle(position) ==
    /\ trips_df = {}
    /\ transfers_df = <<>>
    /\ G = NoGraph
    /\ pc = position
    /\ run = 0
    /\ origin_stop_id = "A"
    /\ departure_time = <<0, 0>>
    /\ max_time_minutes = 0
    /\ day_type = BuiltDayType
    /\ earliest_arrival = <<>>
    /\ pq = {}
    /\ explored = {}
    /\ results = <<>>
    /\ error = "none"
    /\ prev = NoPrev
    /\ time_step_minutes = 0
    /\ timeline = <<>>

\* no calendar is being classified
CalendarIdle ==
    /\ calendar_df = <<>>
    /\ service_ids_by_day = EmptyServiceIds

\* the API process right after a deployment with feed version 1: the graphs
\* are built and saved (scripts/init_data.py) and loaded at startup
ServerStarted ==
    /\ gtfs_dir = [version |-> 1, valid |-> TRUE]
    /\ metadata = 1
    /\ graph_files = [d \in AllDayTypes |-> GraphFile(1)]
    /\ calculator = [loaded |-> TRUE, graphs |-> [d \in AllDayTypes |-> 1]]
    /\ req_pc = "idle"
    /\ request = NoRequest
    /\ response = NoResponse
    /\ in_service = calculator
    /\ failed_step = "none"

-----------------------------------------------------------------------------
(* The state machine *)

\* the feeds: at most MaxTrips trips of the catalogue, at most MaxTransfers
\* transfer rules in file order
Feeds == {T \in SUBSET DOMAIN TripCatalogue : Cardinality(T) <= MaxTrips}

TransferFiles ==
    {SubSeqOf(TransferCatalogue, I) :
        I \in {J \in SUBSET DOMAIN TransferCatalogue : Cardinality(J) <= MaxTransfers}}

\* line 67: self.graphs.get(day_type)
graphs_get(g, day) ==
    IF day = BuiltDayType THEN [found |-> TRUE, graph |-> g]
    ELSE [found |-> FALSE, graph |-> NoGraph]

\* faulty variant: the origin is not looked up in the graph
StopNotFoundUnchecked(g, origin) == FALSE

\* line 72: origin_stop_id not in G.nodes
StopNotFound(g, origin) == ~HasNode(g, origin)

\* lines 67-73: the call raises ValueError before the search is set up
RaisesValueError(g, origin, day) ==
    IF graphs_get(g, day).found THEN StopNotFound(graphs_get(g, day).graph, origin)
    ELSE TRUE

\* the local state calculate_reachability starts from (lines 81-87)
InitialArrival(origin, departure_time_sec) ==
    <<[stop |-> origin, arrival |-> departure_time_sec, transfers |-> 0]>>

InitialQueue(origin, departure_time_sec) == {<<departure_time_sec, origin, 0>>}

RECURSIVE SearchLoop(_, _, _, _, _, _)
\* lines 89-159 run to their end on a graph that is only read: the arrival
\* records when the queue is empty, or the exception of an iteration
SearchLoop(g, ea, q, settled, departure_time_sec, max_time_sec) ==
    IF q = {} THEN [raised |-> FALSE, ea |-> ea]
    ELSE LET current == HeapMin(q)
         IN  IF current[2] \in settled
             THEN SearchLoop(g, ea, q \ {current}, settled, departure_time_sec, max_time_sec)
             ELSE IF current[1] - departure_time_sec > max_time_sec
             THEN SearchLoop(g, ea, q \ {current}, settled \cup {current[2]},
                             departure_time_sec, max_time_sec)
             ELSE IF \E i \in DOMAIN OutEdges(g, current[2]) :
                         EdgeGetRaises(OutEdges(g, current[2])[i])
             THEN [raised |-> TRUE, ea |-> ea]
             ELSE LET st == Relax([ea |-> ea, pq |-> q \ {current}],
                                  OutEdges(g, current[2]), 1, current[1], current[3],
                                  departure_time_sec, max_time_sec)
                  IN  SearchLoop(g, st.ea, st.pq, settled \cup {current[2]},
                                 departure_time_sec, max_time_sec)

\* calculate_reachability as a function of its arguments and the graph: how
\* the call ends and the list it returns
calculate_reachability(g, origin, departure, budget, day) ==
    IF RaisesValueError(g, origin, day)
    THEN [status |-> "error", error |-> "ValueError", results |-> <<>>]
    ELSE LET departure_sec == time_to_seconds(departure)
             end == SearchLoop(g, InitialArrival(origin, departure_sec),
                               InitialQueue(origin, departure_sec), {},
                               departure_sec, budget * 60)
         IN  IF end.raised
             THEN [status |-> "error", error |-> "AttributeError", results |-> <<>>]
             ELSE IF StopDataRaises(g, end.ea, origin)
             THEN [status |-> "error", error |-> "KeyError", results |-> <<>>]
             ELSE [status |-> "done", error |-> "none",
                   results |-> SortResults(BuildResults(end.ea, 1, origin, departure_sec),
                                           1, <<>>)]

\* faulty variant: the explored set outlives the call
LeakedExplored == explored

InitialExplored == {}

\* TransitGraphBuilder(): the feed is loaded, no graph is built yet
Init ==
    /\ trips_df \in Feeds
    /\ transfers_df \in TransferFiles
    /\ G = NoGraph
    /\ pc = "loaded"
    /\ run = 0
    /\ origin_stop_id = "A"
    /\ departure_time = <<0, 0>>
    /\ max_time_minutes = 0
    /\ day_type = BuiltDayType
    /\ earliest_arrival = <<>>
    /\ pq = {}
    /\ explored = {}
    /\ results = <<>>
    /\ error = "none"
    /\ prev = NoPrev
    /\ time_step_minutes = 0
    /\ timeline = <<>>
    /\ CalendarIdle
    /\ ServerStarted

\* build_graph_for_day_type, and ReachabilityCalculator(graphs) on its result
Build ==
    /\ pc = "loaded"
    /\ G' = build_graph_for_day_type(trips_df, transfers_df, ServiceIds)
    /\ pc' = "ready"
    /\ UNCHANGED <<calendarVars, serverVars, day_type, time_step_minutes, timeline, trips_df, transfers_df, run, origin_stop_id, departure_time,
                   max_time_minutes, earliest_arrival, pq, explored, results, error, prev>>

\* calculate_reachability(origin, departure, budget, day), lines 67-87.  The
\* second query repeats the first one's origin, departure time and day type
\* with a budget that is not smaller.
StartSearch(origin, departure, budget, day) ==
    /\ pc \in {"ready", "done", "error"}
    /\ run < MaxQueries
    /\ run > 0 => /\ origin = origin_stop_id
                  /\ departure = departure_time
                  /\ budget >= max_time_minutes
                  /\ day = day_type
    /\ run' = run + 1
    /\ prev' = IF run = 0 THEN NoPrev
               ELSE [budget |-> max_time_minutes, status |-> pc,
                     results |-> results, error |-> error]
    /\ origin_stop_id' = origin
    /\ departure_time' = departure
    /\ max_time_minutes' = budget
    /\ day_type' = day
    /\ results' = <<>>
    /\ time_step_minutes' = 0
    /\ timeline' = <<>>
    /\ IF RaisesValueError(G, origin, day)
       THEN /\ pc' = "error"
            /\ error' = "ValueError"
            /\ earliest_arrival' = <<>>
            /\ pq' = {}
            /\ explored' = {}
       ELSE /\ pc' = "search"
            /\ error' = "none"
            /\ earliest_arrival' = InitialArrival(origin, time_to_seconds(departure))
            /\ pq' = InitialQueue(origin, time_to_seconds(departure))
            /\ explored' = InitialExplored
    /\ UNCHANGED <<calendarVars, serverVars, trips_df, transfers_df, G>>

departure_time_sec == time_to_seconds(departure_time)

max_time_sec == max_time_minutes * 60

\* the entry the next iteration of `while pq` pops
Current == HeapMin(pq)

\* line 99: the popped entry is beyond the budget
OverBudget(current_time) == current_time - departure_time_sec > max_time_sec

\* lines 90-94: the popped stop was explored before
PopStale ==
    /\ pc = "search"
    /\ pq # {}
    /\ Current[2] \in explored
    /\ pq' = pq \ {Current}
    /\ UNCHANGED <<calendarVars, serverVars, day_type, time_step_minutes, timeline, trips_df, transfers_df, G, pc, run, origin_stop_id, departure_time,
                   max_time_minutes, earliest_arrival, explored, results, error, prev>>

\* lines 90-100: the popped stop is settled but not expanded
PopOverBudget ==
    /\ pc = "search"
    /\ pq # {}
    /\ Current[2] \notin explored
    /\ OverBudget(Current[1])
    /\ pq' = pq \ {Current}
    /\ explored' = explored \cup {Current[2]}
    /\ UNCHANGED <<calendarVars, serverVars, day_type, time_step_minutes, timeline, trips_df, transfers_df, G, pc, run, origin_stop_id, departure_time,
                   max_time_minutes, earliest_arrival, results, error, prev>>

\* some edge dict of the stop has no 'departure_time' key
ExpandRaises(stop) ==
    \E i \in DOMAIN OutEdges(G, stop) : EdgeGetRaises(OutEdges(G, stop)[i])

\* lines 90-159: one iteration that expands the popped stop
Expand ==
    /\ pc = "search"
    /\ pq # {}
    /\ Current[2] \notin explored
    /\ ~OverBudget(Current[1])
    /\ ~ExpandRaises(Current[2])
    /\ LET st == Relax([ea |-> earliest_arrival, pq |-> pq \ {Current}],
                       OutEdges(G, Current[2]), 1, Current[1], Current[3],
                       departure_time_sec, max_time_sec)
       IN  /\ earliest_arrival' = st.ea
           /\ pq' = st.pq
    /\ explored' = explored \cup {Current[2]}
    /\ G' = GraphAfterExpand(G, Current[2], Current[1])
    /\ UNCHANGED <<calendarVars, serverVars, day_type, time_step_minutes, timeline, trips_df, transfers_df, pc, run, origin_stop_id, departure_time,
                   max_time_minutes, results, error, prev>>

\* lines 90-121: the iteration meets an edge dict it cannot read and the call
\* ends with AttributeError
ExpandFails ==
    /\ pc = "search"
    /\ pq # {}
    /\ Current[2] \notin explored
    /\ ~OverBudget(Current[1])
    /\ ExpandRaises(Current[2])
    /\ pc' = "error"
    /\ error' = "AttributeError"
    /\ pq' = pq \ {Current}
    /\ explored' = explored \cup {Current[2]}
    /\ UNCHANGED <<calendarVars, serverVars, day_type, time_step_minutes, timeline, trips_df, transfers_df, G, run, origin_stop_id, departure_time,
                   max_time_minutes, earliest_arrival, results, prev>>

\* lines 161-185: the queue is empty, the sorted result list is returned
Finish ==
    /\ pc = "search"
    /\ pq = {}
    /\ ~StopDataRaises(G, earliest_arrival, origin_stop_id)
    /\ results' = SortResults(BuildResults(earliest_arrival, 1, origin_stop_id,
                                           departure_time_sec), 1, <<>>)
    /\ pc' = "done"
    /\ UNCHANGED <<calendarVars, serverVars, day_type, time_step_minutes, timeline, trips_df, transfers_df, G, run, origin_stop_id, departure_time,
                   max_time_minutes, earliest_arrival, pq, explored, error, prev>>

\* lines 161-175: a recorded stop has no stop_name and the call ends with KeyError
FinishFails ==
    /\ pc = "search"
    /\ pq = {}
    /\ StopDataRaises(G, earliest_arrival, origin_stop_id)
    /\ pc' = "error"
    /\ error' = "KeyError"
    /\ UNCHANGED <<calendarVars, serverVars, day_type, time_step_minutes, timeline, trips_df, transfers_df, G, run, origin_stop_id, departure_time,
                   max_time_minutes, earliest_arrival, pq, explored, results, prev>>

\* calculate_reachability_timeline, lines 219-234, on the list its call of
\* calculate_reachability (line 211) has returned
BuildTimeline(step_minutes) ==
    /\ pc = "done"
    /\ time_step_minutes = 0
    /\ time_step_minutes' = step_minutes
    /\ timeline' = TimelineFrames(results, step_minutes, max_time_minutes)
    /\ UNCHANGED <<calendarVars, serverVars, day_type, trips_df, transfers_df, G, pc, run, origin_stop_id,
                   departure_time, max_time_minutes, earliest_arrival, pq, explored,
                   results, error, prev>>

\* one iteration of `while pq`, or the code after the loop
LoopStep == PopStale \/ PopOverBudget \/ Expand \/ ExpandFails \/ Finish \/ FinishFails

Next ==
    \/ Build
    \/ \E origin \in StopIds, departure \in Departures, budget \in Budgets,
          day \in DayTypes :
          StartSearch(origin, departure, budget, day)
    \/ PopStale
    \/ PopOverBudget
    \/ Expand
    \/ ExpandFails
    \/ Finish
    \/ FinishFails
    \/ \E step_minutes \in TimeSteps : BuildTimeline(step_minutes)

Spec == Init /\ [][Next]_vars

-----------------------------------------------------------------------------
(* The calendar classification on its own *)

\* a builder that has loaded calendar.txt
CalendarInit ==
    /\ SearchIdle("calendar")
    /\ calendar_df \in Calendars
    /\ service_ids_by_day = EmptyServiceIds
    /\ ServerStarted

\* get_service_ids_by_day_type()
Classify ==
    /\ pc = "calendar"
    /\ service_ids_by_day' = get_service_ids_by_day_type(calendar_df, 1, EmptyServiceIds)
    /\ pc' = "classified"
    /\ UNCHANGED <<calendar_df, serverVars, trips_df, transfers_df, G, run,
                   origin_stop_id, departure_time, max_time_minutes, day_type,
                   earliest_arrival, pq, explored, results, error, prev,
                   time_step_minutes, timeline>>

CalendarNext == Classify

CalendarSpec == CalendarInit /\ [][CalendarNext]_vars

-----------------------------------------------------------------------------
(* The API process *)

ServerInit ==
    /\ SearchIdle("serving")
    /\ CalendarIdle
    /\ ServerStarted

\* the outcome of the authorization check and of check_and_update
\* (app.py 235-241, gtfs_downloader.py 242-284)
UpdatePhase(authorized, download_ok, offered, valid) ==
    IF ~authorized THEN "unauthorized"
    ELSE IF ~download_ok THEN "download_failed"
    ELSE IF offered = metadata THEN "current"
    ELSE IF ~valid THEN "invalid"
    ELSE "updated"

\* the steps of the rebuild that may raise, and the ways they fail: the files
\* cannot be loaded, a graph cannot be built, a graph file cannot be opened
\* or written, a graph file is gone or unreadable when load_graphs comes to it
Faults == {"none", "inputs", "build", "open_fails", "dump_fails", "removed"}

SaveFaults == {"open_fails", "dump_fails"}

\* the step of the rebuild that a fault makes fail
FailedStep(fault) ==
    IF fault = "none" THEN "none"
    ELSE IF fault \in {"inputs", "build"} THEN fault
    ELSE IF fault \in SaveFaults THEN "save"
    ELSE "reload"

\* the position of a day type in DayTypeOrder
DayIndex(day) == CHOOSE i \in DOMAIN DayTypeOrder : DayTypeOrder[i] = day

\* what a failed write leaves of the file: open() failed and the file is as it
\* was, or pickle.dump failed and the file is cut short
FailedWrite(file, fault) == IF fault = "open_fails" THEN file ELSE TruncatedFile

\* save_graphs, graph_builder.py 307-311: the files are written one by one in
\* the order of the day types; a fault at the k-th file ends the loop there
SavedFiles(files, build, fault, k) ==
    [d \in AllDayTypes |->
        IF fault \notin SaveFaults THEN GraphFile(build)
        ELSE IF DayIndex(d) < k THEN GraphFile(build)
        ELSE IF DayIndex(d) = k THEN FailedWrite(files[d], fault)
        ELSE files[d]]

\* the files load_graphs finds: the k-th one may have been removed
FilesFound(files, fault, k) ==
    [d \in AllDayTypes |->
        IF fault = "removed" /\ DayIndex(d) = k THEN AbsentFile ELSE files[d]]

RECURSIVE load_graphs(_, _)
\* load_graphs, graph_builder.py 330-341, from the i-th day type: the error of
\* the first file that cannot be loaded, or "ok"
load_graphs(files, i) ==
    IF i > Len(DayTypeOrder) THEN "ok"
    ELSE IF LoadOutcome(files[DayTypeOrder[i]]) # "ok"
    THEN LoadOutcome(files[DayTypeOrder[i]])
    ELSE load_graphs(files, i + 1)

\* load_calculator, app.py 48-59: the calculator afterwards.  A missing file
\* sets it to None; any other error is raised and leaves it as it is.
load_calculator(files, current) ==
    IF load_graphs(files, 1) = "ok"
    THEN [loaded |-> TRUE, graphs |-> [d \in AllDayTypes |-> files[d].build]]
    ELSE IF load_graphs(files, 1) = "FileNotFoundError" THEN NoCalculator
    ELSE current

\* update_gtfs, app.py 224-273: the authorization check, check_and_update on
\* the feed version the source offers, and, when the feed is new, the
\* rebuild: build_all_graphs, save_graphs, load_calculator.  The rebuild may
\* fail with `fault` at its k-th day type.
UpdateGtfs(authorized, download_ok, offered, valid, fault, k) ==
    /\ pc = "serving"
    /\ EventLoopFree(req_pc)
    /\ LET phase == UpdatePhase(authorized, download_ok, offered, valid)
           rebuilt == phase = "updated"
           saves == rebuilt /\ fault \notin {"inputs", "build"}
           loads == saves /\ fault \notin SaveFaults
           saved == SavedFiles(graph_files, offered, fault, k)
       IN  /\ gtfs_dir' = IF phase \in {"invalid", "updated"}
                          THEN [version |-> offered, valid |-> valid] ELSE gtfs_dir
           /\ metadata' = IF rebuilt THEN offered ELSE metadata
           /\ graph_files' = IF loads THEN FilesFound(saved, fault, k)
                             ELSE IF saves THEN saved
                             ELSE graph_files
           /\ calculator' = IF loads
                            THEN load_calculator(FilesFound(saved, fault, k), calculator)
                            ELSE calculator
           /\ failed_step' = IF phase = "unauthorized" THEN failed_step
                             ELSE IF phase = "download_failed" THEN "download"
                             ELSE IF phase = "invalid" THEN "validation"
                             ELSE IF rebuilt THEN FailedStep(fault)
                             ELSE "none"
           /\ in_service' = IF phase = "unauthorized" THEN in_service
                            ELSE IF rebuilt /\ fault = "none" THEN calculator'
                            ELSE calculator
    /\ UNCHANGED <<searchVars, calendarVars, req_pc, request, response>>

UpdateCall(authorized, download_ok, offered, valid, fault, k) ==
    [authorized |-> authorized, download_ok |-> download_ok, offered |-> offered,
     valid |-> valid, fault |-> fault, k |-> k]

\* the update requests and what happens to them, each case once: a request
\* without the admin token, a failed download, and for every feed version the
\* source may offer an invalid feed and a valid feed with every fault of the
\* rebuild (the faults of saving and loading at every day type)
UpdateCalls ==
    {UpdateCall(FALSE, TRUE, 1, TRUE, "none", 1), UpdateCall(TRUE, FALSE, 1, TRUE, "none", 1)}
    \cup {UpdateCall(TRUE, TRUE, v, FALSE, "none", 1) : v \in 1 .. MaxVersions}
    \cup {UpdateCall(TRUE, TRUE, v, TRUE, f, 1) :
              v \in 1 .. MaxVersions, f \in {"none", "inputs", "build"}}
    \cup {UpdateCall(TRUE, TRUE, v, TRUE, f, k) :
              v \in 1 .. MaxVersions, f \in SaveFaults \cup {"removed"},
              k \in DOMAIN DayTypeOrder}

\* scripts/update_scheduler.py, main: the scheduler job, a process of its own.
\* It runs check_and_update and, when the feed is new, build_all_graphs and
\* save_graphs; the calculator of the API process is not reloaded.
SchedulerUpdate(download_ok, offered, valid, fault, k) ==
    /\ pc = "serving"
    /\ fault # "removed"
    /\ LET phase == UpdatePhase(TRUE, download_ok, offered, valid)
           rebuilt == phase = "updated"
           saves == rebuilt /\ fault \notin {"inputs", "build"}
       IN  /\ gtfs_dir' = IF phase \in {"invalid", "updated"}
                          THEN [version |-> offered, valid |-> valid] ELSE gtfs_dir
           /\ metadata' = IF rebuilt THEN offered ELSE metadata
           /\ graph_files' = IF saves THEN SavedFiles(graph_files, offered, fault, k)
                             ELSE graph_files
           /\ failed_step' = IF phase = "download_failed" THEN "download"
                             ELSE IF phase = "invalid" THEN "validation"
                             ELSE IF rebuilt THEN FailedStep(fault)
                             ELSE "none"
    /\ in_service' = calculator
    /\ UNCHANGED <<searchVars, calendarVars, calculator, req_pc, request, response>>

\* startup_event, app.py 66-85: with fewer than three graph files the graphs
\* are built from the feed on disk and saved
StartupFiles ==
    IF Cardinality({d \in AllDayTypes : graph_files[d].state # "absent"})
           < Len(DayTypeOrder)
       /\ gtfs_dir.valid
    THEN [d \in AllDayTypes |-> GraphFile(gtfs_dir.version)]
    ELSE graph_files

\* the process is restarted between two requests: startup_event.  A process
\* whose startup raises serves nothing, like one without a calculator.
Restart ==
    /\ pc = "serving"
    /\ req_pc = "idle"
    /\ graph_files' = StartupFiles
    /\ calculator' = StartupCalculator(StartupFiles)
    /\ in_service' = IF failed_step = "none" THEN calculator' ELSE in_service
    /\ UNCHANGED <<searchVars, calendarVars, gtfs_dir, metadata, req_pc, request,
                   response, failed_step>>

Answer(status, found, lookup, search, searched) ==
    [status |-> status, found |-> found, lookup |-> lookup, search |-> search,
     searched |-> searched]

\* the reachability and the timeline handler, app.py 156-163 and 195-202:
\* the test of the calculator and the lookup of the origin stop
Lookup(origin, day, kind) ==
    /\ pc = "serving"
    /\ req_pc = "idle"
    /\ IF ~calculator.loaded
       THEN /\ response' = Answer(503, FALSE, EmptyDict, EmptyDict, FALSE)
            /\ req_pc' = "answered"
            /\ UNCHANGED request
       ELSE IF StopInfoIsNone(calculator.graphs, origin, day)
       THEN /\ response' = Answer(ExceptStatus("HTTPException"), FALSE,
                                  calculator.graphs, EmptyDict, FALSE)
            /\ req_pc' = "answered"
            /\ UNCHANGED request
       ELSE /\ req_pc' = "search"
            /\ request' = [origin |-> origin, day |-> day, kind |-> kind,
                           lookup |-> calculator.graphs]
            /\ UNCHANGED response
    /\ UNCHANGED <<searchVars, calendarVars, gtfs_dir, metadata, graph_files,
                   calculator, in_service, failed_step>>

\* the status of the handler's call of the search on the calculator
SearchStatus(raises) ==
    IF ~calculator.loaded THEN ExceptStatus("AttributeError")
    ELSE IF SearchRaisesValueError(calculator.graphs, request.origin, request.day)
    THEN ExceptStatus("ValueError")
    ELSE IF raises THEN ExceptStatus("Exception")
    ELSE 200

\* app.py 165-181 and 204-221: the search on the calculator and the response
Search(raises) ==
    /\ req_pc = "search"
    /\ response' = Answer(SearchStatus(raises), TRUE, request.lookup,
                          calculator.graphs, calculator.loaded)
    /\ req_pc' = "answered"
    /\ request' = NoRequest
    /\ UNCHANGED <<searchVars, calendarVars, gtfs_dir, metadata, graph_files,
                   calculator, in_service, failed_step>>

\* the handler returns or raises and the response is sent
Return ==
    /\ req_pc = "answered"
    /\ req_pc' = "idle"
    /\ response' = NoResponse
    /\ UNCHANGED <<searchVars, calendarVars, gtfs_dir, metadata, graph_files,
                   calculator, request, in_service, failed_step>>

ServerNext ==
    \/ \E call \in UpdateCalls :
          UpdateGtfs(call.authorized, call.download_ok, call.offered, call.valid,
                     call.fault, call.k)
    \/ Restart
    \/ \E origin \in Origins, day \in AllDayTypes, kind \in RequestKinds :
          Lookup(origin, day, kind)
    \/ \E raises \in BOOLEAN : Search(raises)
    \/ Return

ServerSpec == ServerInit /\ [][ServerNext]_vars

\* the feed, the graph files and the calculator under the update requests,
\* the scheduler job and restarts of the API process, with no request in
\* progress
UpdaterNext ==
    \/ \E call \in UpdateCalls :
          UpdateGtfs(call.authorized, call.download_ok, call.offered, call.valid,
                     call.fault, call.k)
    \/ \E call \in {c \in UpdateCalls : c.authorized} :
          SchedulerUpdate(call.download_ok, call.offered, call.valid, call.fault, call.k)
    \/ Restart

UpdaterSpec == ServerInit /\ [][UpdaterNext]_vars

-----------------------------------------------------------------------------
(* What the feed asks of the graph (used by the properties below) *)

\* the consecutive stop-visit pairs of trip t, in stop_sequence order
Segments(t) ==
    LET trip_stops == SortByStopSequence(TripCatalogue[t].visits)
    IN  [i \in 1 .. (Len(trip_stops) - 1) |->
            [from |-> trip_stops[i].stop_id, to |-> trip_stops[i + 1].stop_id,
             attr |-> TripEdgeAttr(trip_stops[i], trip_stops[i + 1], t)]]

SelectedTrips == TripsOnDay(trips_df, ServiceIds)

\* the transfer rules whose two stops are nodes of the graph
AcceptedTransfers == {i \in DOMAIN transfers_df : TransferAccepted(G, transfers_df[i])}

RECURSIVE SumOver(_, _)
SumOver(S, f) ==
    IF S = {} THEN 0
    ELSE LET x == CHOOSE y \in S : TRUE IN f[x] + SumOver(S \ {x}, f)

\* the number of edges the feed asks for
ExpectedEdges ==
    SumOver(SelectedTrips, [t \in SelectedTrips |-> Len(Segments(t))])
    + Cardinality(AcceptedTransfers)

Built == pc # "loaded"

KnownStops == Range(STOPS)

\* the current call has returned or raised, and its origin was a node
Ended == pc \in {"done", "error"} /\ error # "ValueError"

\* the edges of the graph by type, as the search reads them
IsTransferEdge(e) == e.transfer
IsTripEdge(e) == ~e.transfer

Infinity == 100 * DaySeconds

\* earliest arrivals after one more round of relaxing every edge of the graph:
\* a trip segment is boarded at or after the arrival at its from-stop, a
\* transfer takes its duration
RelaxAll(dist) ==
    [n \in DOMAIN dist |->
        LET offers == {dist[n]} \cup
                {G.edges[i].arrival_time : i \in {j \in DOMAIN G.edges :
                    /\ G.edges[j].to = n /\ IsTripEdge(G.edges[j])
                    /\ dist[G.edges[j].from] < Infinity
                    /\ G.edges[j].departure_time >= dist[G.edges[j].from]}} \cup
                {dist[G.edges[i].from] + G.edges[i].duration : i \in {j \in DOMAIN G.edges :
                    /\ G.edges[j].to = n /\ IsTransferEdge(G.edges[j])
                    /\ dist[G.edges[j].from] < Infinity}}
        IN  CHOOSE a \in offers : \A b \in offers : a <= b]

RECURSIVE RelaxRounds(_, _)
RelaxRounds(dist, k) == IF k = 0 THEN dist ELSE RelaxRounds(RelaxAll(dist), k - 1)

NodeIds == {G.nodes[i].id : i \in DOMAIN G.nodes}

\* the earliest arrival at every node over the paths of the graph that start
\* at the origin at the departure time
EarliestPossible ==
    RelaxRounds([n \in NodeIds |-> IF n = origin_stop_id THEN departure_time_sec
                                   ELSE Infinity],
                Cardinality(NodeIds))

ResultStops == {results[i].stop_id : i \in DOMAIN results}

Recorded(stop) == KeyIndex(earliest_arrival, stop) # 0

ArrivalAt(stop) == earliest_arrival[KeyIndex(earliest_arrival, stop)].arrival

-----------------------------------------------------------------------------
(* Properties *)

\* C1: every call on a graph returns, for each stop that some path reaches
\* within departure + budget, that stop with the earliest arrival any path
\* achieves, and records no other arrival time.
C1_EarliestArrivalReturned ==
    Ended =>
        \A n \in NodeIds \ {origin_stop_id} :
            /\ EarliestPossible[n] <= departure_time_sec + max_time_sec
                  => pc = "done" /\ n \in ResultStops
            /\ n \in ResultStops => ArrivalAt(n) = EarliestPossible[n]

\* C2: the built graph holds one edge of its own for every consecutive
\* stop-visit pair of every selected trip and for every accepted transfer
\* rule, each with its own times and type.
C2_OneEdgePerConnection ==
    Built =>
        /\ Len(G.edges) = ExpectedEdges
        /\ \A t \in SelectedTrips : \A k \in DOMAIN Segments(t) :
              \E i \in DOMAIN G.edges :
                 /\ G.edges[i].from = Segments(t)[k].from
                 /\ G.edges[i].to = Segments(t)[k].to
                 /\ G.edges[i].has_times /\ ~G.edges[i].transfer
                 /\ G.edges[i].trip_id = t
                 /\ G.edges[i].departure_time = Segments(t)[k].attr.departure_time
                 /\ G.edges[i].arrival_time = Segments(t)[k].attr.arrival_time
        /\ \A r \in AcceptedTransfers :
              \E i \in DOMAIN G.edges :
                 /\ G.edges[i].from = transfers_df[r].from_stop_id
                 /\ G.edges[i].to = transfers_df[r].to_stop_id
                 /\ G.edges[i].transfer /\ ~G.edges[i].has_times
                 /\ G.edges[i].duration = TransferTime(transfers_df[r])

\* C3: a stop that the search has expanded within the budget and that has a
\* transfer edge without timestamps did not make the call fail, and the
\* edge's neighbour is recorded no later than the stop's arrival plus the
\* edge's duration whenever that is within the budget.
C3_TransferEdgeAdmissible ==
    pc \in {"search", "done", "error"} =>
        \A s \in explored : \A i \in DOMAIN G.edges :
            ( /\ G.edges[i].from = s
              /\ G.edges[i].transfer /\ ~G.edges[i].has_times
              /\ Recorded(s)
              /\ ~OverBudget(ArrivalAt(s)) )
            => /\ pc # "error"
               /\ WithinBudget(ArrivalAt(s) + G.edges[i].duration,
                               departure_time_sec, max_time_sec)
                     => /\ Recorded(G.edges[i].to)
                        /\ ArrivalAt(G.edges[i].to) <= ArrivalAt(s) + G.edges[i].duration

\* C4: in every built graph the node set is exactly the stop list, every node
\* carries its data, and both endpoints of every edge are stops of the list.
C4_OnlyKnownStops ==
    Built =>
        /\ NodeIds = KnownStops
        /\ \A i \in DOMAIN G.nodes : G.nodes[i].has_data
        /\ \A i \in DOMAIN G.edges :
              G.edges[i].from \in KnownStops /\ G.edges[i].to \in KnownStops

\* C5: every trip segment edge of a built graph arrives no earlier than it
\* departs, and its duration is arrival - departure >= 0.
C5_ArrivalNotBeforeDeparture ==
    Built =>
        \A i \in DOMAIN G.edges :
            (G.edges[i].has_times /\ ~G.edges[i].transfer)
            => /\ G.edges[i].arrival_time >= G.edges[i].departure_time
               /\ G.edges[i].duration = G.edges[i].arrival_time - G.edges[i].departure_time
               /\ G.edges[i].duration >= 0

\* the edges leaving the origin that arrive no later than the departure time
ZeroTimeEdges ==
    {i \in DOMAIN G.edges :
        /\ G.edges[i].from = origin_stop_id
        /\ IF G.edges[i].transfer THEN G.edges[i].duration <= 0
           ELSE /\ G.edges[i].departure_time >= departure_time_sec
                /\ G.edges[i].arrival_time <= departure_time_sec}

HasPrev == prev.status # "none" /\ prev.error # "ValueError"

\* C7: when a call with budget b1 returned and the next call has budget
\* b2 > b1, every stop of the first list is in the second list with the same
\* travel time.
C7_BudgetMonotone ==
    (HasPrev /\ Ended /\ prev.status = "done" /\ prev.budget < max_time_minutes) =>
        \A i \in DOMAIN prev.results :
            /\ pc = "done"
            /\ \E j \in DOMAIN results :
                  /\ results[j].stop_id = prev.results[i].stop_id
                  /\ results[j].travel_time_minutes = prev.results[i].travel_time_minutes

\* C8: for a budget that is not negative, every entry of the arrival records
\* and of the queue is within departure + budget, every returned stop has
\* travel time <= budget, a stop whose earliest arrival is exactly
\* departure + budget is returned, and one whose earliest arrival is later
\* is not.
C8_WithinBudget ==
    (pc \in {"search", "done", "error"} /\ error # "ValueError" /\ max_time_minutes >= 0) =>
        /\ \A i \in DOMAIN earliest_arrival :
              earliest_arrival[i].arrival <= departure_time_sec + max_time_sec
        /\ \A e \in pq : e[1] <= departure_time_sec + max_time_sec
        /\ \A i \in DOMAIN results :
              results[i].travel_time_minutes <= max_time_minutes * 10
        /\ Ended =>
              \A n \in NodeIds \ {origin_stop_id} :
                 /\ EarliestPossible[n] = departure_time_sec + max_time_sec
                       => pc = "done" /\ n \in ResultStops
                 /\ EarliestPossible[n] > departure_time_sec + max_time_sec
                       => n \notin ResultStops

\* C9: two successive calls with identical arguments on the same graph end
\* the same way: the same list in the same order, or the same error.
C9_Idempotent ==
    (HasPrev /\ pc \in {"done", "error"} /\ prev.budget = max_time_minutes) =>
        /\ prev.status = pc
        /\ prev.results = results
        /\ prev.error = error

\* C9 witness: the second of two identical calls returned a list in which two
\* stops have equal travel times.
C9_Witness ==
    /\ HasPrev /\ pc = "done" /\ prev.budget = max_time_minutes
    /\ Len(results) >= 2
    /\ results[1].travel_time_minutes = results[2].travel_time_minutes

\* C10: the returned list holds no origin, holds every other recorded stop
\* exactly once, is sorted ascending by travel time, and keeps stops of equal
\* travel time in the order in which the search first recorded them.
C10_SortedStable ==
    pc = "done" =>
        /\ \A i \in DOMAIN results : results[i].stop_id # origin_stop_id
        /\ Len(results) = Len(earliest_arrival) - 1
        /\ \A k \in DOMAIN earliest_arrival :
              earliest_arrival[k].stop # origin_stop_id
              => Cardinality({i \in DOMAIN results :
                                results[i].stop_id = earliest_arrival[k].stop}) = 1
        /\ \A i, j \in DOMAIN results :
              i < j =>
                 /\ results[i].travel_time_minutes <= results[j].travel_time_minutes
                 /\ results[i].travel_time_minutes = results[j].travel_time_minutes
                       => KeyIndex(earliest_arrival, results[i].stop_id)
                          < KeyIndex(earliest_arrival, results[j].stop_id)

\* C10 witness: a returned list keeps two stops of equal travel time in
\* recording order although their stop ids are in the opposite order.
C10_Witness ==
    /\ pc = "done"
    /\ \E i, j \in DOMAIN results :
          /\ i < j
          /\ results[i].travel_time_minutes = results[j].travel_time_minutes
          /\ StopOrd(results[i].stop_id) > StopOrd(results[j].stop_id)

\* C11: a call whose origin is no node of the selected graph, or whose day
\* type has no graph, has ended with ValueError, has set up no search state
\* and returned nothing, and has left the graph as it was built.
C11_UnknownOriginOrDayRaises ==
    (run > 0 /\ (day_type # BuiltDayType \/ ~HasNode(G, origin_stop_id))) =>
        /\ pc = "error" /\ error = "ValueError"
        /\ earliest_arrival = <<>> /\ pq = {} /\ explored = {}
        /\ results = <<>> /\ timeline = <<>>
        /\ G = build_graph_for_day_type(trips_df, transfers_df, ServiceIds)

\* C11 witness: on a graph with edges, a call and its repetition with an
\* origin that is no node of the graph have both raised ValueError.
C11_Witness ==
    /\ pc = "error" /\ error = "ValueError" /\ prev.error = "ValueError"
    /\ day_type = BuiltDayType
    /\ G.edges # <<>> /\ ~HasNode(G, origin_stop_id)

\* C12: a call with a budget of zero or less minutes is rejected with an
\* error: it runs no search and returns no result.
C12_NonPositiveBudgetRejected ==
    (run > 0 /\ max_time_minutes <= 0) => (pc = "error" /\ error = "ValueError")

\* the service id is in the list
Listed(list, service_id) == \E i \in DOMAIN list : list[i] = service_id

\* C13: once the calendar is classified, the service id of every rule is in
\* `saturday` exactly if its saturday flag is 1, in `sunday` exactly if its
\* sunday flag is 1, and in `weekday` exactly if one of its monday-friday
\* flags is 1, and it is in each list at most once.
C13_ClassifiedByDayFlags ==
    pc = "classified" =>
        \A i \in DOMAIN calendar_df :
            LET service_id == calendar_df[i].service_id
                row == calendar_df[i].flags
            IN  /\ Listed(service_ids_by_day.saturday, service_id) <=> row.saturday = 1
                /\ Listed(service_ids_by_day.sunday, service_id) <=> row.sunday = 1
                /\ Listed(service_ids_by_day.weekday, service_id) <=> AnyWeekday(row)
                /\ \A d \in AllDayTypes :
                      Cardinality({j \in DOMAIN service_ids_by_day[d] :
                                      service_ids_by_day[d][j] = service_id}) <= 1

\* C13 witness: a classified rule active on Saturday and Sunday only is in
\* `saturday` and `sunday` and not in `weekday`.
C13_Witness ==
    /\ pc = "classified"
    /\ \E i \in DOMAIN calendar_df :
          /\ calendar_df[i].flags.saturday = 1 /\ calendar_df[i].flags.sunday = 1
          /\ ~AnyWeekday(calendar_df[i].flags)
          /\ Listed(service_ids_by_day.saturday, calendar_df[i].service_id)
          /\ Listed(service_ids_by_day.sunday, calendar_df[i].service_id)
          /\ ~Listed(service_ids_by_day.weekday, calendar_df[i].service_id)

\* C14: a timeline holds one frame for each of step, 2*step, ..., k*step, in
\* that order, where k*step is the largest multiple of the step that does not
\* exceed the budget, and is empty when the step exceeds the budget.
C14_TimelineFrames ==
    time_step_minutes > 0 =>
        /\ \A k \in DOMAIN timeline :
              /\ timeline[k].elapsed_minutes = k * time_step_minutes
              /\ timeline[k].elapsed_minutes <= max_time_minutes
        /\ (Len(timeline) + 1) * time_step_minutes > max_time_minutes
        /\ time_step_minutes > max_time_minutes => timeline = <<>>

\* C14 witness: a timeline of three frames whose last frame holds a stop.
C14_Witness ==
    /\ time_step_minutes > 0 /\ Len(timeline) = 3
    /\ timeline[3].reachable_stops # <<>>

\* C15: every frame of a timeline holds exactly the stops of the search
\* result whose arrival is at most elapsed minutes after the departure time,
\* in the order of the result.
C15_FrameHoldsStopsWithinElapsed ==
    time_step_minutes > 0 =>
        \A k \in DOMAIN timeline :
            timeline[k].reachable_stops =
                SelectSeq(results,
                          LAMBDA stop : ArrivalAt(stop.stop_id) - departure_time_sec
                                            <= timeline[k].elapsed_minutes * 60)

\* the graphs of a calculator are those of one build
OneBuild(calc) ==
    /\ calc.loaded
    /\ DOMAIN calc.graphs = AllDayTypes
    /\ \A d, e \in AllDayTypes : calc.graphs[d] = calc.graphs[e]

\* C16: a request whose search was called made its stop lookup and its search
\* on the same set of graphs, a set with a graph for every day type that is
\* the set of the calculator; and a calculator always holds a graph for every
\* day type.
C16_RequestSeesOneGraphSet ==
    /\ calculator.loaded => DOMAIN calculator.graphs = AllDayTypes
    /\ (req_pc = "answered" /\ response.searched) =>
          /\ response.lookup = response.search
          /\ DOMAIN response.search = AllDayTypes
          /\ response.search = calculator.graphs

\* C16 witness: after an update that rebuilt and reloaded the graphs, a
\* request is answered with status 200 from the graphs of the new build.
C16_Witness ==
    /\ req_pc = "answered" /\ response.status = 200
    /\ failed_step = "none" /\ metadata # 1
    /\ OneBuild(calculator)
    /\ \A d \in AllDayTypes : response.search[d] = metadata

\* C17: after a rebuild that failed at loading the inputs, building, saving or
\* reloading, the calculator is the one that was in service before the
\* attempt, and it holds the three graphs of one build.
C17_FailedRebuildKeepsGraphs ==
    failed_step \in {"inputs", "build", "save", "reload"} =>
        /\ calculator = in_service
        /\ OneBuild(calculator)

\* C18: a request whose origin get_stop_info did not find in the selected
\* graph is answered with status 404, and its search is not called.
C18_UnknownOriginIs404 ==
    (req_pc = "answered" /\ response.lookup # EmptyDict /\ ~response.found) =>
        /\ response.status = 404
        /\ ~response.searched

\* the transfer count recorded for a stop
TransfersAt(stop) == earliest_arrival[KeyIndex(earliest_arrival, stop)].transfers

\* C19: whenever an iteration of the search records or replaces the arrival
\* of a stop over a trip segment, the popped entry is the record of the stop
\* it expands, the arrival recorded is the segment's, and the transfer count
\* recorded is that stop's count plus 1 if the segment departs more than 120 s
\* after the arrival at that stop, plus 0 otherwise.
C19_TransferCount ==
    [][(pc = "search" /\ pq # {}) =>
        \A i \in DOMAIN earliest_arrival' :
            (i > Len(earliest_arrival) \/ earliest_arrival'[i] # earliest_arrival[i]) =>
                \E j \in DOMAIN G.edges :
                    /\ G.edges[j].from = Current[2]
                    /\ G.edges[j].to = earliest_arrival'[i].stop
                    /\ IsTripEdge(G.edges[j]) =>
                          /\ Current[1] = ArrivalAt(Current[2])
                          /\ Current[3] = TransfersAt(Current[2])
                          /\ earliest_arrival'[i].arrival = G.edges[j].arrival_time
                          /\ earliest_arrival'[i].transfers =
                                TransfersAt(Current[2])
                                + (IF G.edges[j].departure_time - ArrivalAt(Current[2])
                                        > TransferWait
                                   THEN 1 ELSE 0)
      ]_vars

\* C19 witness: a returned search has reached a stop over a trip segment that
\* left exactly 120 s after the arrival at its from-stop, with the from-stop's
\* transfer count, and the from-stop is not the origin.
C19_Witness ==
    /\ pc = "done"
    /\ \E j \in DOMAIN G.edges :
          /\ IsTripEdge(G.edges[j])
          /\ G.edges[j].from # origin_stop_id
          /\ Recorded(G.edges[j].from) /\ Recorded(G.edges[j].to)
          /\ G.edges[j].departure_time - ArrivalAt(G.edges[j].from) = TransferWait
          /\ ArrivalAt(G.edges[j].to) = G.edges[j].arrival_time
          /\ TransfersAt(G.edges[j].to) = TransfersAt(G.edges[j].from)

\* the stops of the graph that are not settled
Unsettled == NodeIds \ explored

\* C20: while the search loop runs, a step is always possible and every step
\* lowers (number of unsettled stops, queue length) in lexicographic order, so
\* the loop ends; a stop is settled once, when its first entry is popped; an
\* entry of a settled stop is dropped with no other effect; an entry is pushed
\* only with an arrival earlier than the one recorded for its stop; and the
\* result is made when the queue is empty.
C20_SearchTerminates ==
    /\ [](pc = "search" => ENABLED LoopStep)
    /\ [][pc = "search" =>
            /\ \/ Unsettled' \subseteq Unsettled /\ Unsettled' # Unsettled
               \/ /\ Unsettled' = Unsettled
                  /\ \/ Cardinality(pq') < Cardinality(pq)
                     \/ pc' # "search"
            /\ explored' # explored =>
                  /\ Current[2] \notin explored
                  /\ explored' = explored \cup {Current[2]}
            /\ (pq # {} /\ Current[2] \in explored) =>
                  /\ pq' = pq \ {Current}
                  /\ earliest_arrival' = earliest_arrival
                  /\ explored' = explored
            /\ \A e \in pq' \ pq :
                  /\ KeyIndex(earliest_arrival', e[2]) # 0
                  /\ earliest_arrival'[KeyIndex(earliest_arrival', e[2])].arrival = e[1]
                  /\ Recorded(e[2]) => e[1] < ArrivalAt(e[2])
            /\ pc' = "done" => pq = {}
         ]_vars

\* C20 witness: a search has returned after expanding, within the budget, a
\* stop other than the origin that has a zero-duration self-loop.
C20_Witness ==
    /\ pc = "done"
    /\ \E j \in DOMAIN G.edges :
          /\ G.edges[j].from = G.edges[j].to
          /\ G.edges[j].duration = 0
          /\ G.edges[j].from \in explored \ {origin_stop_id}
          /\ ~OverBudget(ArrivalAt(G.edges[j].from))

\* how the current call ends when it is run on its own on the graph
OwnRun == calculate_reachability(G, origin_stop_id, departure_time, max_time_minutes,
                                 day_type)

\* C21: once the graph is built, the calls and the timeline leave it as the
\* builder made it (nodes, edges and every edge attribute), and every call,
\* the first one and the one after it, ends as a run of its own on that graph
\* ends: with the same list, or the same error, and the timeline is made of
\* that list.
C21_GraphAndCallsUntouched ==
    /\ pc # "loaded" => G = build_graph_for_day_type(trips_df, transfers_df, ServiceIds)
    /\ (run > 0 /\ pc = "done") =>
          /\ OwnRun.status = "done"
          /\ results = OwnRun.results
          /\ time_step_minutes > 0 =>
                timeline = TimelineFrames(OwnRun.results, time_step_minutes,
                                          max_time_minutes)
    /\ (run > 0 /\ pc = "error") =>
          /\ OwnRun.status = "error"
          /\ error = OwnRun.error

\* a trip segment leaving a stop the search expanded at a time more than 24 h
\* after the segment's stored departure
ShiftedSegments ==
    {j \in DOMAIN G.edges :
        /\ IsTripEdge(G.edges[j])
        /\ G.edges[j].from \in explored
        /\ Recorded(G.edges[j].from)
        /\ ~OverBudget(ArrivalAt(G.edges[j].from))
        /\ G.edges[j].departure_time < ArrivalAt(G.edges[j].from) - DaySeconds}

\* C21 witness: the second of two calls has returned, the first one returned
\* too, a timeline is made, and the search evaluated a segment with the
\* 24-hour shift.
C21_Witness ==
    /\ pc = "done" /\ HasPrev /\ prev.status = "done"
    /\ time_step_minutes > 0
    /\ ShiftedSegments # {}

\* the arrival record of the stop is new or differs after the step
RecordChanged(stop) ==
    \E i \in DOMAIN earliest_arrival' :
        /\ earliest_arrival'[i].stop = stop
        /\ (i > Len(earliest_arrival) \/ earliest_arrival'[i] # earliest_arrival[i])

\* C22: in every iteration of the search, a trip segment leaving the popped
\* stop whose stop's record is set by the iteration has a stored departure
\* that is not before the popped arrival time, and the record holds its stored
\* arrival; a segment whose stored departure is more than 24 h before the
\* popped time is read with both times 24 h later, still departs before the
\* popped time, and sets no record.
C22_ShiftAdmitsNothing ==
    [][(pc = "search" /\ pq # {}) =>
        \A j \in DOMAIN G.edges :
            (G.edges[j].from = Current[2] /\ IsTripEdge(G.edges[j])) =>
                /\ RecordChanged(G.edges[j].to) =>
                      /\ G.edges[j].departure_time >= Current[1]
                      /\ \E i \in DOMAIN earliest_arrival' :
                            /\ earliest_arrival'[i].stop = G.edges[j].to
                            /\ earliest_arrival'[i].arrival = G.edges[j].arrival_time
                /\ G.edges[j].departure_time < Current[1] - DaySeconds =>
                      /\ ShiftedTimes(G.edges[j], Current[1]).dep_time
                            = G.edges[j].departure_time + DaySeconds
                      /\ ShiftedTimes(G.edges[j], Current[1]).arr_time
                            = G.edges[j].arrival_time + DaySeconds
                      /\ ShiftedTimes(G.edges[j], Current[1]).dep_time < Current[1]
                      /\ ~RecordChanged(G.edges[j].to)
      ]_vars

\* C22 witness: a search that returned has expanded, within the budget, a
\* stop with a segment stored more than 24 h before the arrival at the stop,
\* the shifted segment would have arrived within the budget, and the stop it
\* leads to is not reached.
C22_Witness ==
    /\ pc = "done"
    /\ \E j \in ShiftedSegments :
          /\ WithinBudget(G.edges[j].arrival_time + DaySeconds, departure_time_sec,
                          max_time_sec)
          /\ ~Recorded(G.edges[j].to)

\* a search of its own with the elapsed value of frame k as its budget
FrameRun(k) ==
    calculate_reachability(G, origin_stop_id, departure_time,
                           timeline[k].elapsed_minutes, day_type)

\* C23: for every frame of a timeline, the search run with the frame's
\* elapsed value as budget returns, and the records of the frame (stop, travel
\* time, transfer count) are the records that search returns.
C23_FrameEqualsSearchPerFrame ==
    time_step_minutes > 0 =>
        \A k \in DOMAIN timeline :
            /\ FrameRun(k).status = "done"
            /\ Range(timeline[k].reachable_stops) = Range(FrameRun(k).results)

\* C24: whenever the stored metadata records a feed version, the three graph
\* files on disk are the graphs built from that version.
C24_CurrentFeedHasItsGraphs ==
    \A d \in AllDayTypes : graph_files[d] = GraphFile(metadata)

\* C25: an update check whose downloaded feed fails the validation leaves the
\* extracted GTFS files and the stored metadata as they were, and starts no
\* rebuild: the graph files and the calculator are as they were.
C25_InvalidFeedKeepsOldVersion ==
    [][failed_step' = "validation" =>
          /\ gtfs_dir' = gtfs_dir
          /\ metadata' = metadata
          /\ graph_files' = graph_files
          /\ calculator' = calculator
      ]_vars

====
